---- MODULE Spec2Model ----
(***************************************************************************)
(* Model of the SplitPayment contract (contracts/hello-world/src/lib.rs).  *)
(*                                                                         *)
(* The persisted state is the contract's instance storage:                 *)
(*   key 0                      -> the group counter          (counter)    *)
(*   key group_id               -> the Group record           (groups)     *)
(*   key MemberGroups(address)  -> Vec<u32> of group ids      (memberGroups)*)
(*   key GroupExpenses(group_id)-> Vec<Expense>               (groupExpenses)*)
(* A key that was never set is absent: it is outside the DOMAIN of the     *)
(* function that models its key family (the counter is <<>> when absent).  *)
(*                                                                         *)
(* Every contract function is an operator from a store and its arguments   *)
(* to an outcome [res, ret, st]: res is "ok" or the name of the failure    *)
(* (the code panics; the failure names are those of the specification, the *)
(* panic message of each is quoted where it is raised), ret the returned   *)
(* value, st the store as the writes executed before returning or          *)
(* panicking left it.  i128/u32 values are mathematical integers: the      *)
(* bounds below keep every value far inside their ranges.                  *)
(***************************************************************************)
EXTENDS Integers, Sequences, FiniteSets, TLC

VARIABLES counter, groups, memberGroups, groupExpenses, issued

vars == <<counter, groups, memberGroups, groupExpenses, issued>>

-----------------------------------------------------------------------------
(* Bounds of the model and the inputs the calls are drawn from.            *)

MaxSize == 6         \* calls are followed while the store is no larger

Addresses == {"A", "B"}
Amounts == {0, 1, 3}
SettleAmounts == {0, 1, 2}
Descriptions == {"d"}
Timestamps == {7}

BasisPoints == 10000

-----------------------------------------------------------------------------
(* soroban_sdk Vec and Map helpers (Vec indices are 0-based in the code).  *)

Contains(vec, x) == \E i \in 1..Len(vec) : vec[i] = x

\* Vec::first_index_of: the 0-based index of the first occurrence, -1 for None
FirstIndexOf(vec, x) ==
    IF Contains(vec, x)
    THEN (CHOOSE i \in 1..Len(vec) : vec[i] = x /\ \A j \in 1..(i-1) : vec[j] # x) - 1
    ELSE -1

\* mutant of VecRemove: the last element is dropped, whatever the index
VecRemove_DropsLast(vec, i) == SubSeq(vec, 1, Len(vec) - 1)

\* Vec::remove(i), i 0-based and in range
VecRemove(vec, i) == [k \in 1..(Len(vec) - 1) |-> IF k <= i THEN vec[k] ELSE vec[k + 1]]

PushBack(vec, x) == Append(vec, x)

EmptyMap == [k \in {} |-> 0]

\* Map::get(k).unwrap_or(d) and storage get(k).unwrap_or(d)
GetOr(map, k, d) == IF k \in DOMAIN map THEN map[k] ELSE d

\* Map::set / storage set
Put(map, k, v) == [x \in (DOMAIN map) \cup {k} |-> IF x = k THEN v ELSE map[x]]

\* Rust's / on i128 truncates toward zero (the divisor here is 10000)
TruncDiv(a, b) == IF a >= 0 THEN a \div b ELSE -((-a) \div b)

Abs(x) == IF x < 0 THEN -x ELSE x

RECURSIVE SumShares(_)
SumShares(split) ==
    IF split = <<>> THEN 0 ELSE split[1].share + SumShares(Tail(split))

-----------------------------------------------------------------------------
(* Outcomes.                                                               *)

Store == [counter |-> counter, groups |-> groups,
          memberGroups |-> memberGroups, groupExpenses |-> groupExpenses]

Ok(st, ret) == [res |-> "ok", ret |-> ret, st |-> st]
Fail(st, err) == [res |-> err, ret |-> -1, st |-> st]

-----------------------------------------------------------------------------
(* create_group                                                            *)

\* lines 67-78: push group_id on the reverse index of every listed member
RECURSIVE StoreGroupRefs(_, _, _)
StoreGroupRefs(mg, members, group_id) ==
    IF members = <<>> THEN mg
    ELSE LET member == Head(members)
             member_groups == GetOr(mg, member, <<>>)
         IN StoreGroupRefs(Put(mg, member, PushBack(member_groups, group_id)),
                           Tail(members), group_id)

\* mutant of create_group: the new id is not written back to the counter
create_group_KeepsCounter(st, members) ==
    IF Len(members) = 0
    THEN Fail(st, "EmptyMembers")
    ELSE LET s1 == IF st.counter = <<>> THEN [st EXCEPT !.counter = <<0>>] ELSE st
             group_id == GetOr(s1.counter, 1, 0) + 1
             group == [members |-> members, total_amount |-> 0,
                       member_shares |-> EmptyMap]
             s2 == [s1 EXCEPT !.groups = Put(@, group_id, group)]
             s3 == [s2 EXCEPT !.memberGroups = StoreGroupRefs(@, members, group_id)]
         IN Ok(s3, group_id)

create_group(st, members) ==
    IF Len(members) = 0
    THEN Fail(st, "EmptyMembers")        \* "Group must have at least one member"
    ELSE LET s1 == IF st.counter = <<>> THEN [st EXCEPT !.counter = <<0>>] ELSE st
             group_id == GetOr(s1.counter, 1, 0) + 1
             group == [members |-> members, total_amount |-> 0,
                       member_shares |-> EmptyMap]
             s2 == [s1 EXCEPT !.groups = Put(@, group_id, group),
                              !.counter = <<group_id>>]
             s3 == [s2 EXCEPT !.memberGroups = StoreGroupRefs(@, members, group_id)]
         IN Ok(s3, group_id)

-----------------------------------------------------------------------------
(* add_member, remove_member, get_group_members                            *)

\* mutant of add_member: the group's balances are cleared when a member joins
add_member_ClearsShares(st, group_id, new_member) ==
    IF group_id \notin DOMAIN st.groups
    THEN Fail(st, "GroupNotFound")
    ELSE LET group == st.groups[group_id] IN
         IF Contains(group.members, new_member)
         THEN Fail(st, "DuplicateMember")
         ELSE LET g1 == [group EXCEPT !.members = PushBack(@, new_member),
                                      !.member_shares = EmptyMap]
                  s1 == [st EXCEPT !.groups = Put(@, group_id, g1)]
                  member_groups == GetOr(s1.memberGroups, new_member, <<>>)
                  s2 == [s1 EXCEPT !.memberGroups =
                             Put(@, new_member, PushBack(member_groups, group_id))]
              IN Ok(s2, 0)

add_member(st, group_id, new_member) ==
    IF group_id \notin DOMAIN st.groups
    THEN Fail(st, "GroupNotFound")       \* get(&group_id).unwrap()
    ELSE LET group == st.groups[group_id] IN
         IF Contains(group.members, new_member)
         THEN Fail(st, "DuplicateMember")  \* "Member already exists in group"
         ELSE LET g1 == [group EXCEPT !.members = PushBack(@, new_member)]
                  s1 == [st EXCEPT !.groups = Put(@, group_id, g1)]
                  member_groups == GetOr(s1.memberGroups, new_member, <<>>)
                  s2 == [s1 EXCEPT !.memberGroups =
                             Put(@, new_member, PushBack(member_groups, group_id))]
              IN Ok(s2, 0)

\* mutant of remove_member: only a positive balance is refused
remove_member_AllowsDebt(st, group_id, member) ==
    IF group_id \notin DOMAIN st.groups
    THEN Fail(st, "GroupNotFound")
    ELSE LET group == st.groups[group_id] IN
         IF ~Contains(group.members, member)
         THEN Fail(st, "NotAMember")
         ELSE LET balance == GetOr(group.member_shares, member, 0) IN
              IF balance > 0
              THEN Fail(st, "NonZeroBalance")
              ELSE LET idx == FirstIndexOf(group.members, member)
                       g1 == [group EXCEPT !.members = VecRemove(@, idx)]
                       s1 == [st EXCEPT !.groups = Put(@, group_id, g1)]
                       s2 == IF member \in DOMAIN s1.memberGroups
                                /\ FirstIndexOf(s1.memberGroups[member], group_id) >= 0
                             THEN [s1 EXCEPT !.memberGroups = Put(@, member,
                                      VecRemove(s1.memberGroups[member],
                                          FirstIndexOf(s1.memberGroups[member], group_id)))]
                             ELSE s1
                   IN Ok(s2, 0)

\* mutant of remove_member: the member's reverse index is left as it was
remove_member_KeepsIndex(st, group_id, member) ==
    IF group_id \notin DOMAIN st.groups
    THEN Fail(st, "GroupNotFound")
    ELSE LET group == st.groups[group_id] IN
         IF ~Contains(group.members, member)
         THEN Fail(st, "NotAMember")
         ELSE LET balance == GetOr(group.member_shares, member, 0) IN
              IF balance # 0
              THEN Fail(st, "NonZeroBalance")
              ELSE LET idx == FirstIndexOf(group.members, member)
                       g1 == [group EXCEPT !.members = VecRemove(@, idx)]
                       s1 == [st EXCEPT !.groups = Put(@, group_id, g1)]
                   IN Ok(s1, 0)

remove_member(st, group_id, member) ==
    IF group_id \notin DOMAIN st.groups
    THEN Fail(st, "GroupNotFound")
    ELSE LET group == st.groups[group_id] IN
         IF ~Contains(group.members, member)
         THEN Fail(st, "NotAMember")       \* "Member not found in group"
         ELSE LET balance == GetOr(group.member_shares, member, 0) IN
              IF balance # 0
              THEN Fail(st, "NonZeroBalance")  \* "Member has non-zero balance"
              ELSE LET idx == FirstIndexOf(group.members, member)
                       g1 == [group EXCEPT !.members = VecRemove(@, idx)]
                       s1 == [st EXCEPT !.groups = Put(@, group_id, g1)]
                       s2 == IF member \in DOMAIN s1.memberGroups
                                /\ FirstIndexOf(s1.memberGroups[member], group_id) >= 0
                             THEN [s1 EXCEPT !.memberGroups = Put(@, member,
                                      VecRemove(s1.memberGroups[member],
                                          FirstIndexOf(s1.memberGroups[member], group_id)))]
                             ELSE s1
                   IN Ok(s2, 0)

get_group_members(st, group_id) ==
    IF group_id \notin DOMAIN st.groups
    THEN [res |-> "GroupNotFound", out |-> <<>>, st |-> st]
    ELSE [res |-> "ok", out |-> st.groups[group_id].members, st |-> st]

-----------------------------------------------------------------------------
(* add_expense                                                             *)

\* lines 169-173: every split entry names a group member
SplitMembersOk(group, split_members) ==
    \A i \in 1..Len(split_members) : Contains(group.members, split_members[i].member)

\* lines 203-215, one iteration of the loop: the balance written for split.member
AddShare(current, payer, amount, split) ==
    LET member_share == TruncDiv(amount * split.share, BasisPoints) IN
    IF split.member = payer
    THEN current + amount - member_share
    ELSE current - member_share

\* lines 202-216: the loop over split_members, in order
RECURSIVE UpdateMemberShares(_, _, _, _)
UpdateMemberShares(member_shares, payer, amount, split_members) ==
    IF split_members = <<>> THEN member_shares
    ELSE LET split == Head(split_members)
             current == GetOr(member_shares, split.member, 0)
         IN UpdateMemberShares(
                Put(member_shares, split.member, AddShare(current, payer, amount, split)),
                payer, amount, Tail(split_members))

\* mutant of add_expense: the expense is stored before the split total is checked
add_expense_StoresFirst(st, group_id, payer, amount, description, split_members, timestamp) ==
    IF group_id \notin DOMAIN st.groups
    THEN Fail(st, "GroupNotFound")
    ELSE LET group == st.groups[group_id] IN
         IF ~Contains(group.members, payer)
         THEN Fail(st, "NotAMember")
         ELSE IF amount <= 0
         THEN Fail(st, "InvalidAmount")
         ELSE IF ~SplitMembersOk(group, split_members)
         THEN Fail(st, "NotAMember")
         ELSE LET expense == [payer |-> payer, amount |-> amount,
                              description |-> description,
                              split_info |-> split_members, timestamp |-> timestamp]
                  expenses == GetOr(st.groupExpenses, group_id, <<>>)
                  s1 == [st EXCEPT !.groupExpenses =
                             Put(@, group_id, PushBack(expenses, expense))]
                  g1 == [group EXCEPT
                            !.member_shares =
                                UpdateMemberShares(@, payer, amount, split_members),
                            !.total_amount = @ + amount]
                  s2 == [s1 EXCEPT !.groups = Put(@, group_id, g1)]
              IN IF SumShares(split_members) # BasisPoints
                 THEN Fail(s1, "SplitMismatch")
                 ELSE Ok(s2, group_id)

\* mutant of add_expense: the amount is checked before the payer's membership
add_expense_AmountFirst(st, group_id, payer, amount, description, split_members, timestamp) ==
    IF group_id \notin DOMAIN st.groups
    THEN Fail(st, "GroupNotFound")
    ELSE LET group == st.groups[group_id] IN
         IF amount <= 0
         THEN Fail(st, "InvalidAmount")
         ELSE IF ~Contains(group.members, payer)
         THEN Fail(st, "NotAMember")
         ELSE IF ~SplitMembersOk(group, split_members)
         THEN Fail(st, "NotAMember")
         ELSE IF SumShares(split_members) # BasisPoints
         THEN Fail(st, "SplitMismatch")
         ELSE LET expense == [payer |-> payer, amount |-> amount,
                              description |-> description,
                              split_info |-> split_members, timestamp |-> timestamp]
                  expenses == GetOr(st.groupExpenses, group_id, <<>>)
                  s1 == [st EXCEPT !.groupExpenses =
                             Put(@, group_id, PushBack(expenses, expense))]
                  g1 == [group EXCEPT
                            !.member_shares =
                                UpdateMemberShares(@, payer, amount, split_members),
                            !.total_amount = @ + amount]
                  s2 == [s1 EXCEPT !.groups = Put(@, group_id, g1)]
              IN Ok(s2, group_id)

add_expense(st, group_id, payer, amount, description, split_members, timestamp) ==
    IF group_id \notin DOMAIN st.groups
    THEN Fail(st, "GroupNotFound")
    ELSE LET group == st.groups[group_id] IN
         IF ~Contains(group.members, payer)
         THEN Fail(st, "NotAMember")       \* "Payer is not a group member"
         ELSE IF amount <= 0
         THEN Fail(st, "InvalidAmount")    \* "Amount must be positive"
         ELSE IF ~SplitMembersOk(group, split_members)
         THEN Fail(st, "NotAMember")       \* "Split member is not in group"
         ELSE IF SumShares(split_members) # BasisPoints
         THEN Fail(st, "SplitMismatch")    \* "Split shares must total 100%"
         ELSE LET expense == [payer |-> payer, amount |-> amount,
                              description |-> description,
                              split_info |-> split_members, timestamp |-> timestamp]
                  expenses == GetOr(st.groupExpenses, group_id, <<>>)
                  s1 == [st EXCEPT !.groupExpenses =
                             Put(@, group_id, PushBack(expenses, expense))]
                  g1 == [group EXCEPT
                            !.member_shares =
                                UpdateMemberShares(@, payer, amount, split_members),
                            !.total_amount = @ + amount]
                  s2 == [s1 EXCEPT !.groups = Put(@, group_id, g1)]
              IN Ok(s2, group_id)          \* line 222 returns group_id

-----------------------------------------------------------------------------
(* remove_expense                                                          *)

\* mutant of RemoveShare: the payer loses the amount and the share as well
RemoveShare_SubtractsShare(current, expense, split) ==
    LET member_share == TruncDiv(expense.amount * split.share, BasisPoints) IN
    IF split.member = expense.payer
    THEN current - expense.amount - member_share
    ELSE current + member_share

\* lines 251-267, one iteration of the loop
RemoveShare(current, expense, split) ==
    LET member_share == TruncDiv(expense.amount * split.share, BasisPoints) IN
    IF split.member = expense.payer
    THEN current - (expense.amount - member_share)
    ELSE current + member_share

\* mutant of ResetMemberShares: only the first split entry is reverted
ResetMemberShares_FirstOnly(member_shares, expense, split_info) ==
    IF split_info = <<>> THEN member_shares
    ELSE LET split == Head(split_info)
             current == GetOr(member_shares, split.member, 0)
         IN Put(member_shares, split.member, RemoveShare(current, expense, split))

\* lines 250-268: the loop over expense.split_info, in order
RECURSIVE ResetMemberShares(_, _, _)
ResetMemberShares(member_shares, expense, split_info) ==
    IF split_info = <<>> THEN member_shares
    ELSE LET split == Head(split_info)
             current == GetOr(member_shares, split.member, 0)
         IN ResetMemberShares(
                Put(member_shares, split.member, RemoveShare(current, expense, split)),
                expense, Tail(split_info))

\* mutant of remove_expense: total_amount is left as it was
remove_expense_KeepsTotal(st, group_id, expense_index, authorized_by) ==
    IF group_id \notin DOMAIN st.groups
    THEN Fail(st, "GroupNotFound")
    ELSE LET group == st.groups[group_id]
             expenses == GetOr(st.groupExpenses, group_id, <<>>)
         IN
         IF expense_index >= Len(expenses)
         THEN Fail(st, "ExpenseIndexOutOfRange")
         ELSE LET expense == expenses[expense_index + 1] IN
              IF expense.payer # authorized_by
              THEN Fail(st, "NotOriginalPayer")
              ELSE LET g1 == [group EXCEPT
                                 !.member_shares =
                                     ResetMemberShares(@, expense, expense.split_info)]
                       s1 == [st EXCEPT !.groups = Put(@, group_id, g1)]
                       s2 == [s1 EXCEPT !.groupExpenses =
                                  Put(@, group_id, VecRemove(expenses, expense_index))]
                   IN Ok(s2, 0)

remove_expense(st, group_id, expense_index, authorized_by) ==
    IF group_id \notin DOMAIN st.groups
    THEN Fail(st, "GroupNotFound")
    ELSE LET group == st.groups[group_id]
             expenses == GetOr(st.groupExpenses, group_id, <<>>)
         IN
         IF expense_index >= Len(expenses)
         THEN Fail(st, "ExpenseIndexOutOfRange")   \* "Invalid expense index"
         ELSE LET expense == expenses[expense_index + 1] IN
              IF expense.payer # authorized_by
              THEN Fail(st, "NotOriginalPayer")
                   \* "Only the original payer can remove an expense"
              ELSE LET g1 == [group EXCEPT
                                 !.member_shares =
                                     ResetMemberShares(@, expense, expense.split_info),
                                 !.total_amount = @ - expense.amount]
                       s1 == [st EXCEPT !.groups = Put(@, group_id, g1)]
                       s2 == [s1 EXCEPT !.groupExpenses =
                                  Put(@, group_id, VecRemove(expenses, expense_index))]
                   IN Ok(s2, 0)

-----------------------------------------------------------------------------
(* settle_debt, get_member_balance, get_group_expenses                     *)

\* lines 312-313: the two writes, from first and then to
SettleShares(member_shares, from, to, from_share, to_share, amount) ==
    Put(Put(member_shares, from, from_share + amount), to, to_share - amount)

\* mutant of settle_debt: a balance of exactly 0 passes the debt check
settle_debt_ZeroOwes(st, group_id, from, to, amount) ==
    IF group_id \notin DOMAIN st.groups
    THEN Fail(st, "GroupNotFound")
    ELSE LET group == st.groups[group_id] IN
         IF ~Contains(group.members, from)
         THEN Fail(st, "NotAMember")
         ELSE IF ~Contains(group.members, to)
         THEN Fail(st, "NotAMember")
         ELSE IF amount <= 0
         THEN Fail(st, "InvalidAmount")
         ELSE LET from_share == GetOr(group.member_shares, from, 0)
                  to_share == GetOr(group.member_shares, to, 0)
              IN
              IF from_share > 0
              THEN Fail(st, "NoDebt")
              ELSE IF amount > (-from_share)
              THEN Fail(st, "OverSettlement")
              ELSE LET g1 == [group EXCEPT !.member_shares =
                                 SettleShares(@, from, to, from_share, to_share, amount)]
                   IN Ok([st EXCEPT !.groups = Put(@, group_id, g1)], 0)

\* mutant of settle_debt: the settled amount is added to total_amount
settle_debt_CountsTotal(st, group_id, from, to, amount) ==
    IF group_id \notin DOMAIN st.groups
    THEN Fail(st, "GroupNotFound")
    ELSE LET group == st.groups[group_id] IN
         IF ~Contains(group.members, from)
         THEN Fail(st, "NotAMember")
         ELSE IF ~Contains(group.members, to)
         THEN Fail(st, "NotAMember")
         ELSE IF amount <= 0
         THEN Fail(st, "InvalidAmount")
         ELSE LET from_share == GetOr(group.member_shares, from, 0)
                  to_share == GetOr(group.member_shares, to, 0)
              IN
              IF from_share >= 0
              THEN Fail(st, "NoDebt")
              ELSE IF amount > (-from_share)
              THEN Fail(st, "OverSettlement")
              ELSE LET g1 == [group EXCEPT
                                 !.member_shares =
                                     SettleShares(@, from, to, from_share, to_share, amount),
                                 !.total_amount = @ + amount]
                   IN Ok([st EXCEPT !.groups = Put(@, group_id, g1)], 0)

settle_debt(st, group_id, from, to, amount) ==
    IF group_id \notin DOMAIN st.groups
    THEN Fail(st, "GroupNotFound")
    ELSE LET group == st.groups[group_id] IN
         IF ~Contains(group.members, from)
         THEN Fail(st, "NotAMember")       \* "From address is not a group member"
         ELSE IF ~Contains(group.members, to)
         THEN Fail(st, "NotAMember")       \* "To address is not a group member"
         ELSE IF amount <= 0
         THEN Fail(st, "InvalidAmount")    \* "Amount must be positive"
         ELSE LET from_share == GetOr(group.member_shares, from, 0)
                  to_share == GetOr(group.member_shares, to, 0)
              IN
              IF from_share >= 0
              THEN Fail(st, "NoDebt")      \* "From address does not owe any money"
              ELSE IF amount > (-from_share)
              THEN Fail(st, "OverSettlement")
                   \* "Cannot settle more than what is owed"
              ELSE LET g1 == [group EXCEPT !.member_shares =
                                 SettleShares(@, from, to, from_share, to_share, amount)]
                   IN Ok([st EXCEPT !.groups = Put(@, group_id, g1)], 0)

get_member_balance(st, group_id, member) ==
    IF group_id \notin DOMAIN st.groups
    THEN Fail(st, "GroupNotFound")
    ELSE LET group == st.groups[group_id] IN
         IF ~Contains(group.members, member)
         THEN Fail(st, "NotAMember")       \* "Address is not a group member"
         ELSE Ok(st, GetOr(group.member_shares, member, 0))

\* lines 329-332: no lookup of the group, unwrap_or(Vec::new) on the log
get_group_expenses(st, group_id) ==
    [res |-> "ok", out |-> GetOr(st.groupExpenses, group_id, <<>>), st |-> st]

-----------------------------------------------------------------------------
(* The calls the host makes, one at a time (the host serialises them).     *)
(* A call commits the store its operator returns.  issued lists the ids    *)
(* create_group has returned, in order.                                    *)

\* group ids passed to the calls: the ids in use and one that is not
GroupIds == 1..(Cardinality(DOMAIN groups) + 1)

\* expense indexes passed to remove_expense: those of the log and one past it
ExpenseIndexes(g) == 0..Len(GetOr(groupExpenses, g, <<>>))

\* member lists: empty, one member, two members, one member listed twice
MemberLists == {<<>>, <<"A">>, <<"A", "B">>, <<"A", "A">>}

SplitInfo(member, share) == [member |-> member, share |-> share]

\* split lists: empty; the payer absent or present; one member listed twice;
\* a negative share; shares that sum to 9999
SplitLists ==
    { <<>>,
      <<SplitInfo("B", 10000)>>,
      <<SplitInfo("A", 5000), SplitInfo("B", 5000)>>,
      <<SplitInfo("B", 5000), SplitInfo("B", 5000)>>,
      <<SplitInfo("A", 15000), SplitInfo("B", -5000)>>,
      <<SplitInfo("A", 5000), SplitInfo("B", 4999)>> }

RECURSIVE SumOver(_, _)
SumOver(f, S) ==
    IF S = {} THEN 0 ELSE LET x == CHOOSE y \in S : TRUE IN f[x] + SumOver(f, S \ {x})

\* the balance of an address in a group, an absent entry read as 0
Balance(group, m) == GetOr(group.member_shares, m, 0)

\* the size of a store: its groups (a record and a log key each), their
\* members, its logged expenses, its balances
Size(st) ==
    2 * Cardinality(DOMAIN st.groups)
    + SumOver([g \in DOMAIN st.groups |-> Len(st.groups[g].members)], DOMAIN st.groups)
    + SumOver([g \in DOMAIN st.groupExpenses |-> Len(st.groupExpenses[g])],
              DOMAIN st.groupExpenses)
    + SumOver([g \in DOMAIN st.groups |->
                  SumOver([m \in Addresses |-> Abs(Balance(st.groups[g], m))], Addresses)],
              DOMAIN st.groups)

\* exploration bound: a call that changes the store is followed while the
\* store it leaves is no larger than MaxSize
Explored(r) == r.st # Store => Size(r.st) <= MaxSize

Commit(r) ==
    /\ Explored(r)
    /\ counter' = r.st.counter
    /\ groups' = r.st.groups
    /\ memberGroups' = r.st.memberGroups
    /\ groupExpenses' = r.st.groupExpenses

Init ==
    /\ counter = <<>>
    /\ groups = EmptyMap
    /\ memberGroups = EmptyMap
    /\ groupExpenses = EmptyMap
    /\ issued = <<>>

CreateGroup ==
    \E members \in MemberLists :
        LET r == create_group(Store, members) IN
        /\ Commit(r)
        /\ issued' = IF r.res = "ok" THEN Append(issued, r.ret) ELSE issued

AddMember ==
    \E g \in GroupIds, m \in Addresses :
        /\ Commit(add_member(Store, g, m))
        /\ UNCHANGED issued

RemoveMember ==
    \E g \in GroupIds, m \in Addresses :
        /\ Commit(remove_member(Store, g, m))
        /\ UNCHANGED issued

GetGroupMembers ==
    \E g \in GroupIds :
        /\ Commit(get_group_members(Store, g))
        /\ UNCHANGED issued

AddExpense ==
    \E g \in GroupIds, payer \in Addresses, amount \in Amounts,
       description \in Descriptions, split \in SplitLists, timestamp \in Timestamps :
        /\ Commit(add_expense(Store, g, payer, amount, description, split, timestamp))
        /\ UNCHANGED issued

RemoveExpense ==
    \E g \in GroupIds, by \in Addresses :
        \E i \in ExpenseIndexes(g) :
            /\ Commit(remove_expense(Store, g, i, by))
            /\ UNCHANGED issued

SettleDebt ==
    \E g \in GroupIds, from \in Addresses, to \in Addresses, amount \in SettleAmounts :
        /\ Commit(settle_debt(Store, g, from, to, amount))
        /\ UNCHANGED issued

GetMemberBalance ==
    \E g \in GroupIds, m \in Addresses :
        /\ Commit(get_member_balance(Store, g, m))
        /\ UNCHANGED issued

GetGroupExpenses ==
    \E g \in GroupIds :
        /\ Commit(get_group_expenses(Store, g))
        /\ UNCHANGED issued

Next ==
    \/ CreateGroup
    \/ AddMember
    \/ RemoveMember
    \/ GetGroupMembers
    \/ AddExpense
    \/ RemoveExpense
    \/ SettleDebt
    \/ GetMemberBalance
    \/ GetGroupExpenses

Spec == Init /\ [][Next]_vars

\* the member lists without a repeated address
DistinctMemberLists ==
    {members \in MemberLists :
        \A i, j \in 1..Len(members) : members[i] = members[j] => i = j}

\* create_group called with distinct addresses only
CreateGroupDistinct ==
    \E members \in DistinctMemberLists :
        LET r == create_group(Store, members) IN
        /\ Commit(r)
        /\ issued' = IF r.res = "ok" THEN Append(issued, r.ret) ELSE issued

NextDistinct ==
    \/ CreateGroupDistinct
    \/ AddMember
    \/ RemoveMember
    \/ GetGroupMembers
    \/ AddExpense
    \/ RemoveExpense
    \/ SettleDebt
    \/ GetMemberBalance
    \/ GetGroupExpenses

\* the contract used by callers that never repeat an address in create_group
SpecDistinct == Init /\ [][NextDistinct]_vars

-----------------------------------------------------------------------------
(* Properties.  Each is stated of every store the calls can reach and of   *)
(* every call that can be made on it.                                      *)

Log(st, g) == GetOr(st.groupExpenses, g, <<>>)

SumBalances(group) == SumOver([m \in Addresses |-> Balance(group, m)], Addresses)

RECURSIVE SumAmounts(_)
SumAmounts(expenses) ==
    IF expenses = <<>> THEN 0 ELSE Head(expenses).amount + SumAmounts(Tail(expenses))

\* C1: an expense that is added and removed at once (by its payer, at the
\* index it was appended at) leaves every balance of the group, its
\* total_amount and its log as they were before the add, whatever split list
\* the add accepted.
C1_AddThenRemoveRestores ==
    \A g \in GroupIds, payer \in Addresses, amount \in Amounts,
       description \in Descriptions, split \in SplitLists, timestamp \in Timestamps :
        LET r1 == add_expense(Store, g, payer, amount, description, split, timestamp)
            i == Len(Log(Store, g))
            r2 == remove_expense(r1.st, g, i, payer)
        IN r1.res = "ok" =>
              /\ r2.res = "ok"
              /\ \A m \in Addresses :
                    Balance(r2.st.groups[g], m) = Balance(groups[g], m)
              /\ r2.st.groups[g].total_amount = groups[g].total_amount
              /\ r2.st.groups[g].members = groups[g].members
              /\ Log(r2.st, g) = Log(Store, g)

\* a store with a recorded expense and balance on which an add with one member
\* listed twice and the payer absent changes a balance, and its removal
\* restores it
C1_Witness ==
    \E g \in DOMAIN groups, payer \in Addresses, amount \in Amounts,
       split \in SplitLists :
        LET r1 == add_expense(Store, g, payer, amount, "d", split, 7)
            r2 == remove_expense(r1.st, g, Len(Log(Store, g)), payer)
        IN /\ Len(Log(Store, g)) >= 1
           /\ \E m \in Addresses : Balance(groups[g], m) # 0
           /\ r1.res = "ok" /\ r2.res = "ok"
           /\ Len(split) = 2 /\ split[1].member = split[2].member
           /\ split[1].member # payer
           /\ Balance(r1.st.groups[g], split[1].member) # Balance(groups[g], split[1].member)
           /\ Balance(r2.st.groups[g], split[1].member) = Balance(groups[g], split[1].member)

\* C2 (as claimed): a successful settle_debt adds amount to from's balance,
\* takes amount from to's balance and leaves the sum of the group's balances
\* unchanged, for every from and to that pass validation.
C2_SettleConservesSum ==
    \A g \in GroupIds, from \in Addresses, to \in Addresses, amount \in SettleAmounts :
        LET r == settle_debt(Store, g, from, to, amount) IN
        r.res = "ok" =>
            /\ Balance(r.st.groups[g], from) = Balance(groups[g], from) + amount
            /\ Balance(r.st.groups[g], to) = Balance(groups[g], to) - amount
            /\ SumBalances(r.st.groups[g]) = SumBalances(groups[g])

\* C3: in every group, total_amount is the sum of the amounts of the expenses
\* in its log (0 when there is none), so it is never negative; a log exists
\* only for a group that exists.
C3_TotalIsSumOfLog ==
    /\ \A g \in DOMAIN groups :
          /\ groups[g].total_amount = SumAmounts(Log(Store, g))
          /\ groups[g].total_amount >= 0
    /\ DOMAIN groupExpenses \subseteq DOMAIN groups

\* a group with two expenses in its log
C3_Witness ==
    \E g \in DOMAIN groups :
        Len(Log(Store, g)) >= 2 /\ groups[g].total_amount >= 2

\* C4: a call that fails leaves the whole store (counter, groups, reverse
\* indexes, logs) as it was: no write comes before a check that fails.
FailureKeepsStore(r) == r.res # "ok" => r.st = Store

C4_FailureLeavesStore ==
    /\ \A members \in MemberLists : FailureKeepsStore(create_group(Store, members))
    /\ \A g \in GroupIds :
          /\ FailureKeepsStore(get_group_members(Store, g))
          /\ FailureKeepsStore(get_group_expenses(Store, g))
          /\ \A m \in Addresses :
                /\ FailureKeepsStore(add_member(Store, g, m))
                /\ FailureKeepsStore(remove_member(Store, g, m))
                /\ FailureKeepsStore(get_member_balance(Store, g, m))
                /\ \A i \in ExpenseIndexes(g) :
                      FailureKeepsStore(remove_expense(Store, g, i, m))
                /\ \A amount \in Amounts, description \in Descriptions,
                      split \in SplitLists, timestamp \in Timestamps :
                      FailureKeepsStore(
                          add_expense(Store, g, m, amount, description, split, timestamp))
                /\ \A to \in Addresses, amount \in SettleAmounts :
                      FailureKeepsStore(settle_debt(Store, g, m, to, amount))

\* a store with a logged expense and a debt on which calls fail at their last
\* checks: add_expense on the split total, remove_expense on the payer,
\* settle_debt on the amount owed, remove_member on the balance
C4_Witness ==
    \E g \in DOMAIN groups :
        /\ Len(Log(Store, g)) >= 1
        /\ \E m \in Addresses, split \in SplitLists :
              add_expense(Store, g, m, 1, "d", split, 7).res = "SplitMismatch"
        /\ \E m \in Addresses : remove_expense(Store, g, 0, m).res = "NotOriginalPayer"
        /\ \E m \in Addresses, to \in Addresses :
              settle_debt(Store, g, m, to, 2).res = "OverSettlement"
        /\ \E m \in Addresses : remove_member(Store, g, m).res = "NonZeroBalance"

\* C5: settle_debt succeeds only when from owes (balance < 0) and amount is
\* in 1..-balance; a call that reaches the debt checks fails with NoDebt when
\* from's balance is >= 0 and with OverSettlement when amount exceeds the debt.
C5_SettleOnlyWithinDebt ==
    \A g \in DOMAIN groups, from \in Addresses, to \in Addresses,
       amount \in SettleAmounts :
        LET r == settle_debt(Store, g, from, to, amount)
            owed == -Balance(groups[g], from)
            reaches == /\ Contains(groups[g].members, from)
                       /\ Contains(groups[g].members, to)
                       /\ amount > 0
        IN /\ r.res = "ok" => owed > 0 /\ amount >= 1 /\ amount <= owed
           /\ owed <= 0 => r.res # "ok" /\ (reaches => r.res = "NoDebt")
           /\ amount > owed => r.res # "ok"
           /\ (reaches /\ owed > 0 /\ amount > owed) => r.res = "OverSettlement"

\* a store where one settlement is refused with NoDebt, one with
\* OverSettlement, and one for part of a debt is accepted
C5_Witness ==
    \E g \in DOMAIN groups, from \in Addresses, to \in Addresses :
        /\ settle_debt(Store, g, to, from, 1).res = "NoDebt"
        /\ settle_debt(Store, g, from, to, 2).res = "OverSettlement"
        /\ settle_debt(Store, g, from, to, 1).res = "ok"
        /\ Len(Log(Store, g)) >= 1

\* C6: remove_member succeeds only when the member's balance is 0 (an absent
\* entry counts as 0); with a balance other than 0 the call fails, changes
\* nothing, and for a member of the group the failure is NonZeroBalance.
C6_RemoveOnlyAtZero ==
    \A g \in DOMAIN groups, m \in Addresses :
        LET r == remove_member(Store, g, m) IN
        /\ r.res = "ok" => Balance(groups[g], m) = 0
        /\ Balance(groups[g], m) # 0 =>
              /\ r.res # "ok"
              /\ r.st = Store
              /\ Contains(groups[g].members, m) =>
                    r.res = "NonZeroBalance" /\ Contains(r.st.groups[g].members, m)

\* a group with a member whose balance is not 0 and another whose balance is
\* a recorded 0, the first refused and the second removed
C6_Witness ==
    \E g \in DOMAIN groups, m \in Addresses, n \in Addresses :
        /\ Balance(groups[g], m) # 0
        /\ remove_member(Store, g, m).res = "NonZeroBalance"
        /\ n \in DOMAIN groups[g].member_shares
        /\ remove_member(Store, g, n).res = "ok"

\* C7 (as claimed): a successful add_expense returns the index of the new
\* expense, the length of the log before the append, so the log read back has
\* the new expense at the returned index.
C7_ReturnsExpenseIndex ==
    \A g \in GroupIds, payer \in Addresses, amount \in Amounts,
       description \in Descriptions, split \in SplitLists, timestamp \in Timestamps :
        LET r == add_expense(Store, g, payer, amount, description, split, timestamp)
            expenses == get_group_expenses(r.st, g).out
        IN r.res = "ok" =>
              /\ r.ret = Len(Log(Store, g))
              /\ r.ret < Len(expenses)
              /\ expenses[r.ret + 1] =
                    [payer |-> payer, amount |-> amount, description |-> description,
                     split_info |-> split, timestamp |-> timestamp]

\* C8: the ids create_group has returned are 1, 2, 3, ... in order; on every
\* store a call with members returns one more than the last id returned, an
\* id no group has, and a call with no members fails with EmptyMembers and
\* leaves the counter (and the store) as it was.
C8_IdsSequential ==
    /\ \A i \in 1..Len(issued) : issued[i] = i
    /\ \A members \in MemberLists :
          LET r == create_group(Store, members) IN
          IF Len(members) = 0
          THEN r.res = "EmptyMembers" /\ r.st = Store
          ELSE /\ r.res = "ok"
               /\ r.ret = Len(issued) + 1
               /\ r.ret \notin DOMAIN groups
               /\ \A i \in 1..Len(issued) : issued[i] < r.ret
               /\ r.st.counter = <<r.ret>>

\* two ids issued, with a removal of a member between the two calls
C8_Witness ==
    /\ Len(issued) = 2
    /\ \E m \in DOMAIN memberGroups : memberGroups[m] = <<2>>

\* C9 (as claimed): right after a successful add_member(g, m),
\* get_member_balance(g, m) returns 0.
C9_NewMemberHasZeroBalance ==
    \A g \in GroupIds, m \in Addresses :
        LET r == add_member(Store, g, m)
            b == get_member_balance(r.st, g, m)
        IN r.res = "ok" => b.res = "ok" /\ b.ret = 0

\* C10 (as claimed): the balance changes of a successful add_expense sum to
\* at most one unit per split entry, in absolute value.
C10_ResidualWithinSplitLength ==
    \A g \in GroupIds, payer \in Addresses, amount \in Amounts,
       description \in Descriptions, split \in SplitLists, timestamp \in Timestamps :
        LET r == add_expense(Store, g, payer, amount, description, split, timestamp) IN
        r.res = "ok" =>
            Abs(SumBalances(r.st.groups[g]) - SumBalances(groups[g])) <= Len(split)

\* C11 (as claimed): get_group_expenses(g) fails with GroupNotFound for every
\* group id that create_group never issued; it returns a log only for
\* existing groups.
C11_UnknownGroupFails ==
    \A g \in GroupIds :
        g \notin DOMAIN groups => get_group_expenses(Store, g).res = "GroupNotFound"

\* the members of a group, as a set
MemberSet(group) == {group.members[i] : i \in 1..Len(group.members)}

\* the members named by a split list, as a set
SplitMemberSet(split) == {split[i].member : i \in 1..Len(split)}

\* the outcome C12 assigns to a call: the first failing check in the order
\* group, payer, amount, split members, split total
FirstFailingCheck(g, payer, amount, split) ==
    IF g \notin DOMAIN groups THEN "GroupNotFound"
    ELSE IF payer \notin MemberSet(groups[g]) THEN "NotAMember"
    ELSE IF amount <= 0 THEN "InvalidAmount"
    ELSE IF ~(SplitMemberSet(split) \subseteq MemberSet(groups[g])) THEN "NotAMember"
    ELSE IF SumShares(split) # BasisPoints THEN "SplitMismatch"
    ELSE "ok"

\* C12: add_expense reports the first failing check in the order
\* GroupNotFound, NotAMember (payer), InvalidAmount, NotAMember (split entry),
\* SplitMismatch, whatever else is wrong with the call, and a call that passes
\* all five checks succeeds.
C12_FirstFailingCheckReported ==
    \A g \in GroupIds, payer \in Addresses, amount \in Amounts,
       description \in Descriptions, split \in SplitLists, timestamp \in Timestamps :
        add_expense(Store, g, payer, amount, description, split, timestamp).res
            = FirstFailingCheck(g, payer, amount, split)

\* calls that break several checks at once: a non-member payer with amount 0,
\* and a member payer with a positive amount, a non-member split entry and
\* shares summing to 9999
C12_Witness ==
    \E g \in DOMAIN groups, payer \in Addresses, other \in Addresses,
       description \in Descriptions, split \in SplitLists, timestamp \in Timestamps :
        /\ payer \in MemberSet(groups[g])
        /\ other \notin MemberSet(groups[g])
        /\ other \in SplitMemberSet(split)
        /\ SumShares(split) = BasisPoints - 1
        /\ add_expense(Store, g, other, 0, description, split, timestamp).res = "NotAMember"
        /\ add_expense(Store, g, payer, 1, description, split, timestamp).res = "NotAMember"

\* the balance change that the add_expense call which logged `expense` made
\* to address m: the loop of add_expense run on an empty balance map
AddDelta(expense, m) ==
    GetOr(UpdateMemberShares(EmptyMap, expense.payer, expense.amount,
                             expense.split_info), m, 0)

\* the store of a freshly constructed contract
NewStore ==
    [counter |-> <<>>, groups |-> EmptyMap, memberGroups |-> EmptyMap,
     groupExpenses |-> EmptyMap]

\* the scenario of C13: A pays 100 split A:5000/B:5000, then B settles 50 to A
ScenarioCreated == create_group(NewStore, <<"A", "B">>)
ScenarioAdded ==
    add_expense(ScenarioCreated.st, 1, "A", 100, "d",
                <<SplitInfo("A", 5000), SplitInfo("B", 5000)>>, 7)
ScenarioSettled == settle_debt(ScenarioAdded.st, 1, "B", "A", 50)

\* the scenario's removal is refused to B, accepted from A, and leaves
\* A = -50, B = +50 and a total of 0
ScenarioRemoval ==
    LET byA == remove_expense(ScenarioSettled.st, 1, 0, "A")
        byB == remove_expense(ScenarioSettled.st, 1, 0, "B")
    IN /\ ScenarioCreated.res = "ok" /\ ScenarioAdded.res = "ok"
       /\ ScenarioSettled.res = "ok"
       /\ Balance(ScenarioAdded.st.groups[1], "A") = 50
       /\ Balance(ScenarioAdded.st.groups[1], "B") = -50
       /\ Balance(ScenarioSettled.st.groups[1], "A") = 0
       /\ Balance(ScenarioSettled.st.groups[1], "B") = 0
       /\ byB.res = "NotOriginalPayer"
       /\ byA.res = "ok"
       /\ Balance(byA.st.groups[1], "A") = -50
       /\ Balance(byA.st.groups[1], "B") = 50
       /\ byA.st.groups[1].total_amount = 0

\* C13: a successful remove_expense of a logged expense e takes from every
\* balance exactly what the add of e gave it, recomputed from e's stored
\* amount and split, whatever happened to the group since, and lowers
\* total_amount by e.amount; it is accepted only from e's payer.  In the
\* scenario (A pays 100 split 5000/5000, B settles 50) the removal by A
\* leaves A = -50, B = +50, total 0.
C13_RemoveAppliesInverseDeltas ==
    /\ ScenarioRemoval
    /\ \A g \in DOMAIN groups : \A i \in ExpenseIndexes(g), authorized_by \in Addresses :
           LET r == remove_expense(Store, g, i, authorized_by) IN
           r.res = "ok" =>
               LET e == Log(Store, g)[i + 1] IN
               /\ authorized_by = e.payer
               /\ \A m \in Addresses :
                      Balance(r.st.groups[g], m) = Balance(groups[g], m) - AddDelta(e, m)
               /\ r.st.groups[g].total_amount = groups[g].total_amount - e.amount

\* an expense whose debtor is back at 0 through later calls: the removal
\* succeeds and takes the balance from 0 to the negated delta
C13_Witness ==
    \E g \in DOMAIN groups : \E i \in ExpenseIndexes(g), authorized_by \in Addresses, m \in Addresses :
        LET r == remove_expense(Store, g, i, authorized_by) IN
        /\ r.res = "ok"
        /\ AddDelta(Log(Store, g)[i + 1], m) < 0
        /\ Balance(groups[g], m) = 0
        /\ Balance(r.st.groups[g], m) > 0

\* remove_expense on store st: an index at or past the end of the log is
\* refused as out of range whoever asks, and a successful removal at index i
\* keeps the entries before i, moves the entries after i down by one in
\* order, and leaves the logs of the other groups alone
RemoveShiftsLog(st) ==
    \A g \in DOMAIN st.groups :
        \A i \in 0..(Len(Log(st, g)) + 1), authorized_by \in Addresses :
            LET old == Log(st, g)
                r == remove_expense(st, g, i, authorized_by)
                new == Log(r.st, g)
            IN /\ i >= Len(old) => r.res = "ExpenseIndexOutOfRange"
               /\ r.res = "ok" =>
                      /\ Len(new) = Len(old) - 1
                      /\ \A j \in 0..(Len(new) - 1) :
                             new[j + 1] = IF j < i THEN old[j + 1] ELSE old[j + 2]
                      /\ \A h \in DOMAIN st.groups \ {g} : Log(r.st, h) = Log(st, h)

\* C14: a successful add_expense appends the new expense to the group's log
\* and changes no existing entry; a successful remove_expense(g, i, _)
\* deletes exactly entry i, entries before i stay, entries after i move down
\* by one in order; an index at or past the end fails with
\* ExpenseIndexOutOfRange, before the payer is looked at.  The removals are
\* checked on the store and on the store after one more expense of amount 1.
C14_LogOrderKept ==
    /\ RemoveShiftsLog(Store)
    /\ \A g \in GroupIds, payer \in Addresses, amount \in Amounts,
          description \in Descriptions, split \in SplitLists, timestamp \in Timestamps :
           LET r == add_expense(Store, g, payer, amount, description, split, timestamp) IN
           r.res = "ok" =>
               /\ Log(r.st, g) =
                      Log(Store, g) \o <<[payer |-> payer, amount |-> amount,
                                          description |-> description,
                                          split_info |-> split,
                                          timestamp |-> timestamp]>>
               /\ \A h \in DOMAIN groups \ {g} : Log(r.st, h) = Log(Store, h)
               /\ amount = 1 => RemoveShiftsLog(r.st)

\* a log of two different expenses: removing index 0 succeeds and the former
\* index 1 becomes index 0, while index 2 is out of range for the payer too
C14_Witness ==
    \E g \in DOMAIN groups :
        LET old == Log(Store, g) IN
        /\ Len(old) = 2
        /\ old[1] # old[2]
        /\ LET r == remove_expense(Store, g, 0, old[1].payer) IN
           r.res = "ok" /\ Log(r.st, g) = <<old[2]>>
        /\ remove_expense(Store, g, 2, old[1].payer).res = "ExpenseIndexOutOfRange"

\* the group ids worth passing to a call on store st: the existing ones and
\* the next one
StoreGroupIds(st) == 1..(Cardinality(DOMAIN st.groups) + 1)

\* every group of store `before` is still in store `after`, with the same
\* total_amount and the same balance for every address
KeepsLedger(before, after) ==
    \A g \in DOMAIN before.groups :
        /\ g \in DOMAIN after.groups
        /\ after.groups[g].total_amount = before.groups[g].total_amount
        /\ \A m \in Addresses :
               Balance(after.groups[g], m) = Balance(before.groups[g], m)

\* no membership call and no query on store st, successful or failed,
\* changes a balance or a total
MembershipCallsKeepLedger(st) ==
    /\ \A members \in MemberLists : KeepsLedger(st, create_group(st, members).st)
    /\ \A g \in StoreGroupIds(st), m \in Addresses :
           /\ KeepsLedger(st, add_member(st, g, m).st)
           /\ KeepsLedger(st, remove_member(st, g, m).st)
           /\ KeepsLedger(st, get_member_balance(st, g, m).st)
           /\ KeepsLedger(st, get_group_members(st, g).st)
           /\ KeepsLedger(st, get_group_expenses(st, g).st)

\* C15: create_group, add_member, remove_member, get_group_members,
\* get_member_balance and get_group_expenses, successful or failed, leave
\* every balance and every total_amount of every existing group unchanged.
\* The calls are checked on the store and on the store with one more group.
C15_MembershipCallsKeepBalances ==
    /\ MembershipCallsKeepLedger(Store)
    /\ MembershipCallsKeepLedger(create_group(Store, <<"A">>).st)

\* a group with a debt and a positive total: a member joins it, and a
\* further group is created next to it
C15_Witness ==
    \E g \in DOMAIN groups, m \in Addresses, debtor \in Addresses :
        /\ Balance(groups[g], debtor) < 0
        /\ groups[g].total_amount > 0
        /\ add_member(Store, g, m).res = "ok"
        /\ create_group(Store, <<m>>).res = "ok"

\* C16 (as claimed): in every reachable state no group's members sequence
\* holds the same address twice, whatever lists create_group was given (it
\* refuses only the empty list).
C16_MembersDistinct ==
    \A g \in DOMAIN groups :
        \A i, j \in 1..Len(groups[g].members) :
            groups[g].members[i] = groups[g].members[j] => i = j

\* MemberGroups(m) of store st, empty when the key is absent
MemberGroups(st, m) == GetOr(st.memberGroups, m, <<>>)

\* how many times x occurs in seq
Occurrences(seq, x) == Cardinality({i \in 1..Len(seq) : seq[i] = x})

\* g occurs in MemberGroups(m) once when m is a member of g, and not at all
\* otherwise; the index holds ids of existing groups only
IndexConsistent(st) ==
    \A m \in Addresses :
        /\ \A i \in 1..Len(MemberGroups(st, m)) :
               MemberGroups(st, m)[i] \in DOMAIN st.groups
        /\ \A g \in DOMAIN st.groups :
               Occurrences(MemberGroups(st, m), g)
                   = IF Contains(st.groups[g].members, m) THEN 1 ELSE 0

\* on store st, create_group and add_member append the group id to the
\* index of each address they add and remove_member takes the id out of the
\* index of the address it removes, and every other index stays as it was
IndexUpdatedInOrder(st) ==
    /\ \A members \in DistinctMemberLists :
           LET r == create_group(st, members) IN
           r.res = "ok" =>
               \A m \in Addresses :
                   MemberGroups(r.st, m) =
                       IF Contains(members, m)
                       THEN Append(MemberGroups(st, m), r.ret)
                       ELSE MemberGroups(st, m)
    /\ \A g \in StoreGroupIds(st), m \in Addresses :
           LET a == add_member(st, g, m)
               d == remove_member(st, g, m)
           IN /\ a.res = "ok" =>
                     /\ MemberGroups(a.st, m) = Append(MemberGroups(st, m), g)
                     /\ \A o \in Addresses \ {m} :
                            MemberGroups(a.st, o) = MemberGroups(st, o)
              /\ d.res = "ok" =>
                     /\ MemberGroups(d.st, m) =
                            SelectSeq(MemberGroups(st, m), LAMBDA x : x # g)
                     /\ \A o \in Addresses \ {m} :
                            MemberGroups(d.st, o) = MemberGroups(st, o)

\* C17: when create_group is only ever given distinct addresses, g occurs in
\* MemberGroups(m) exactly when m is a member of g, and at most once;
\* create_group and add_member append g at the end of the index, and
\* remove_member removes g and keeps the order of the other ids.
C17_ReverseIndexConsistent ==
    /\ IndexConsistent(Store)
    /\ IndexUpdatedInOrder(Store)
    /\ \A members \in DistinctMemberLists :
           LET r == create_group(Store, members) IN
           r.res = "ok" => IndexConsistent(r.st) /\ IndexUpdatedInOrder(r.st)

\* an address in groups 1 and 2: a third group is created with it and it is
\* then removed from group 2, which leaves the index <<1, 3>>
C17_Witness ==
    \E m \in Addresses :
        /\ MemberGroups(Store, m) = <<1, 2>>
        /\ LET r == create_group(Store, <<m>>)
               d == remove_member(r.st, 2, m)
           IN /\ r.res = "ok" /\ d.res = "ok"
              /\ MemberGroups(r.st, m) = <<1, 2, 3>>
              /\ MemberGroups(d.st, m) = <<1, 3>>

\* C18 (as claimed): every payer and every split member of a logged expense
\* is a current member of the group, and every address that is not a current
\* member of a group has balance 0 there.
C18_LedgerNamesMembersOnly ==
    \A g \in DOMAIN groups :
        /\ \A i \in 1..Len(Log(Store, g)) :
               /\ Contains(groups[g].members, Log(Store, g)[i].payer)
               /\ SplitMemberSet(Log(Store, g)[i].split_info)
                      \subseteq MemberSet(groups[g])
        /\ \A m \in Addresses :
               ~Contains(groups[g].members, m) => Balance(groups[g], m) = 0

\* a successful settle_debt on store st leaves the counter, the reverse
\* indexes, the logs, the other groups, and of its own group the members,
\* the total and every member_shares entry but those of from and to
SettleFrame(st) ==
    \A g \in StoreGroupIds(st), from \in Addresses, to \in Addresses,
       amount \in SettleAmounts :
        LET r == settle_debt(st, g, from, to, amount) IN
        r.res = "ok" =>
            /\ r.st.counter = st.counter
            /\ r.st.memberGroups = st.memberGroups
            /\ r.st.groupExpenses = st.groupExpenses
            /\ DOMAIN r.st.groups = DOMAIN st.groups
            /\ \A h \in DOMAIN st.groups \ {g} : r.st.groups[h] = st.groups[h]
            /\ r.st.groups[g].members = st.groups[g].members
            /\ r.st.groups[g].total_amount = st.groups[g].total_amount
            /\ DOMAIN r.st.groups[g].member_shares
                   \subseteq DOMAIN st.groups[g].member_shares \cup {from, to}
            /\ \A m \in Addresses \ {from, to} :
                   /\ m \in DOMAIN r.st.groups[g].member_shares
                          <=> m \in DOMAIN st.groups[g].member_shares
                   /\ Balance(r.st.groups[g], m) = Balance(st.groups[g], m)

\* C19: a successful settle_debt(g, from, to, amount) changes nothing but the
\* member_shares entries of from and to in group g: members, total_amount,
\* the log, the other balances, the counter, the reverse indexes and the
\* other groups stay as they were.  The calls are checked on the store and
\* on the store with one more group.
C19_SettleChangesTwoEntries ==
    /\ SettleFrame(Store)
    /\ SettleFrame(create_group(Store, <<"A", "B">>).st)

\* a debt is settled in a group with a logged expense, next to a second
\* group, and the two balances do change
C19_Witness ==
    \E g \in DOMAIN groups, from \in Addresses,
       to \in Addresses, amount \in SettleAmounts :
        LET c == create_group(Store, <<"A", "B">>)
            r == settle_debt(c.st, g, from, to, amount)
        IN /\ c.res = "ok" /\ r.res = "ok"
           /\ from # to
           /\ Len(Log(Store, g)) >= 1
           /\ Balance(r.st.groups[g], from) = Balance(groups[g], from) + amount
           /\ Balance(r.st.groups[g], to) = Balance(groups[g], to) - amount
           /\ settle_debt(Store, g, from, to, amount).res = "ok"

====
